---- MODULE Spec2Model ----
(***************************************************************************)
(* Model of golem (src/src/main.rs): the TileMap resource, the noise       *)
(* driven generate_world pass run by the Startup system `setup`, and the   *)
(* Update system `move_player`.                                            *)
(*                                                                         *)
(* Noise samples are kept in tenths (0.3 -> 3, 0.8 -> 8) so that the two   *)
(* threshold comparisons of generate_world stay integer comparisons.       *)
(***************************************************************************)
EXTENDS Integers, Sequences, FiniteSets, TLC

\* ---------------------------------------------------------------- bounds
\* Side of the generated grid (GRID_SIZE is 64 in the source).
GRID_SIZE == 2
\* Longest sequence of TileMap::insert calls of the TileMap API harness.
MaxInserts == 3

\* ------------------------------------------------------------- constants
TILE_SIZE == 12
ROCK_THRESHOLD == 3
WATER_THRESHOLD == 8
PLAYER_Z == 10

\* Representative noise samples in tenths: one at the rock threshold
\* (0.3, not above it), one at the water threshold (0.8, above 0.3 but not
\* above 0.8) and one above both (0.9).
NoiseVals == {3, 8, 9}

\* States the thread-local generator can be in when generate_world takes it.
RngStates == {1, 2}
\* No generator in scope.
NoRng == 0

Keys == {"KeyW", "KeyS", "KeyA", "KeyD"}
TileTypes == {"Passable", "Unpassable"}

\* Cells visited by the two nested loops of generate_world.
Grid == {<<x, y>> : x \in 0..(GRID_SIZE - 1), y \in 0..(GRID_SIZE - 1)}

VARIABLES
    pc,           \* position in the schedule / inside setup and generate_world
    gx, gy,       \* loop variables x and y of generate_world
    noise_val,    \* local noise_val of generate_world
    perlin,       \* samples the Perlin function has returned so far
    tiles,        \* TileMap.tiles : HashMap<(i32, i32), TileType>
    players,      \* entities carrying (Player, Transform)
    kb,           \* ButtonInput<KeyCode> restricted to W, S, A, D
    outcome,      \* branch taken by the last evaluation of move_player
    gen_runs,     \* number of calls of generate_world
    contributed,  \* per key: evaluations it fed a direction to since its last event
    insert_log,   \* TileMap API harness: the insert calls made, in order
    query,        \* TileMap API harness: the last is_passable call and its result
    rng,          \* local rng of generate_world: state of rand::thread_rng()
    commands,     \* Tile spawns queued on Commands and not applied yet
    has_moved,    \* whether an evaluation of move_player has committed a move
    first_run     \* map and rng of an earlier generate_world run, for comparison

vars == <<pc, gx, gy, noise_val, perlin, tiles, players, kb, outcome,
          gen_runs, contributed, insert_log, query,
          rng, commands, has_moved, first_run>>

\* ---------------------------------------------------------------- TileMap
\* TileMap::new
EmptyMap == [p \in {} |-> "Passable"]

\* HashMap::get : Some(kind) for a present key, None otherwise.
MapGet(t, pos) ==
    IF pos \in DOMAIN t THEN [some |-> TRUE, val |-> t[pos]]
                        ELSE [some |-> FALSE]

\* is_passable ending in unwrap_or(true): a missing entry reads as passable.
is_passable_open(t, pos) ==
    IF pos \in DOMAIN t THEN t[pos] = "Passable" ELSE TRUE

\* TileMap::is_passable : get(&pos).map(|t| *t == Passable).unwrap_or(false)
is_passable(t, pos) ==
    LET got == MapGet(t, pos)
        mapped == IF got.some THEN [some |-> TRUE, val |-> (got.val = "Passable")]
                              ELSE [some |-> FALSE]
    IN  IF mapped.some THEN mapped.val ELSE FALSE

\* insert written as entry(pos).or_insert(ttype): an existing entry is kept.
insert_keep(t, pos, ttype) ==
    [p \in (DOMAIN t) \cup {pos} |-> IF p \in DOMAIN t THEN t[p] ELSE ttype]

\* TileMap::insert : HashMap::insert, an unconditional overwrite.
insert(t, pos, ttype) ==
    [p \in (DOMAIN t) \cup {pos} |-> IF p = pos THEN ttype ELSE t[p]]

\* ------------------------------------------------------------------ Init
NoQuery == [asked |-> FALSE]
NoFirstRun == [done |-> FALSE]

Init ==
    /\ pc = "Startup"
    /\ gx = 0
    /\ gy = 0
    /\ noise_val = 0
    /\ perlin = EmptyMap
    /\ tiles = EmptyMap
    /\ players = {}
    /\ kb = [pressed |-> {}, just_pressed |-> {}]
    /\ outcome = "none"
    /\ gen_runs = 0
    /\ contributed = [k \in Keys |-> 0]
    /\ insert_log = <<>>
    /\ query = NoQuery
    /\ rng = NoRng
    /\ commands = <<>>
    /\ has_moved = FALSE
    /\ first_run = NoFirstRun

\* -------------------------------------------------------- generate_world
\* Both loops written with an inclusive range, 0..=GRID_SIZE.
LoopEnd_incl == GRID_SIZE + 1

\* Upper end (exclusive) of both loops: 0..GRID_SIZE as i32.
LoopEnd == GRID_SIZE

\* setup up to and including the call of generate_world.
SetupCallGenerate ==
    /\ pc = "Startup"
    /\ gen_runs' = gen_runs + 1
    /\ gx' = 0
    /\ gy' = 0
    /\ pc' = IF LoopEnd > 0 THEN "gen_sample1" ELSE "gen_done"
    /\ rng' \in RngStates
    /\ UNCHANGED <<noise_val, perlin, tiles, players, kb, outcome,
                   contributed, insert_log, query>>
    /\ UNCHANGED <<commands, has_moved, first_run>>

\* perlin.get([x / NOISE_SCALE, y / NOISE_SCALE]) : a pure function of the
\* cell; a cell sampled before returns the value it returned then.
PerlinGet(v) ==
    /\ IF <<gx, gy>> \in DOMAIN perlin
          THEN v = perlin[<<gx, gy>>] /\ perlin' = perlin
          ELSE perlin' = insert(perlin, <<gx, gy>>, v)
    /\ noise_val' = v

\* let noise_val = perlin.get(..)                                (line 167)
GenSample1 ==
    /\ pc = "gen_sample1"
    /\ \E v \in NoiseVals : PerlinGet(v)
    /\ pc' = "gen_ground"
    /\ UNCHANGED <<gx, gy, tiles, players, kb, outcome, gen_runs,
                   contributed, insert_log, query>>
    /\ UNCHANGED <<rng, commands, has_moved, first_run>>

\* commands.spawn((Tile { pos, ttype }, .., MeshMaterial2d(material), Transform
\* with translation (x * TILE_SIZE, y * TILE_SIZE, z), ..))
TileSpawn(pos, ttype, material, z) ==
    [pos |-> pos, ttype |-> ttype, material |-> material,
     translation |-> <<pos[1] * TILE_SIZE, pos[2] * TILE_SIZE, z>>]

\* ground tile spawned, tile_map.insert((x, y), Passable)   (lines 170-188)
GenGround ==
    /\ pc = "gen_ground"
    /\ commands' = Append(commands, TileSpawn(<<gx, gy>>, "Passable", "ground_matl", 0))
    /\ tiles' = insert(tiles, <<gx, gy>>, "Passable")
    /\ pc' = "gen_rock"
    /\ UNCHANGED <<gx, gy, noise_val, perlin, players, kb, outcome, gen_runs,
                   contributed, insert_log, query>>
    /\ UNCHANGED <<rng, has_moved, first_run>>

\* The rock test made against the water threshold.
IsRock_high(n) == n > WATER_THRESHOLD

\* The rock test written with >= .
IsRock_ge(n) == n >= ROCK_THRESHOLD

\* The rock test fed from the generator as well as from the noise.
IsRock_rng(n) == n + rng > ROCK_THRESHOLD + 1

\* The rock threshold mistyped as 0.9.
IsRock_typo(n) == n > 9

\* if noise_val > 0.3
IsRock(n) == n > ROCK_THRESHOLD

\* if noise_val > 0.8
IsWater(n) == n > WATER_THRESHOLD

\* The rock step without its tile_map.insert.
GenRock_noinsert ==
    /\ pc = "gen_rock"
    /\ IF IsRock(noise_val)
          THEN /\ commands' = Append(commands,
                      TileSpawn(<<gx, gy>>, "Unpassable", "rock_matl", 1))
               /\ tiles' = tiles
          ELSE UNCHANGED <<commands, tiles>>
    /\ pc' = "gen_sample2"
    /\ UNCHANGED <<gx, gy, noise_val, perlin, players, kb, outcome, gen_runs,
                   contributed, insert_log, query>>
    /\ UNCHANGED <<rng, has_moved, first_run>>

\* rock tile spawned, tile_map.insert((x, y), Unpassable)   (lines 191-211)
GenRock ==
    /\ pc = "gen_rock"
    /\ IF IsRock(noise_val)
          THEN /\ commands' = Append(commands,
                      TileSpawn(<<gx, gy>>, "Unpassable", "rock_matl", 1))
               /\ tiles' = insert(tiles, <<gx, gy>>, "Unpassable")
          ELSE UNCHANGED <<commands, tiles>>
    /\ pc' = "gen_sample2"
    /\ UNCHANGED <<gx, gy, noise_val, perlin, players, kb, outcome, gen_runs,
                   contributed, insert_log, query>>
    /\ UNCHANGED <<rng, has_moved, first_run>>

\* let noise_val = perlin.get(..)   (second sample, line 214)
GenSample2 ==
    /\ pc = "gen_sample2"
    /\ \E v \in NoiseVals : PerlinGet(v)
    /\ pc' = "gen_water"
    /\ UNCHANGED <<gx, gy, tiles, players, kb, outcome, gen_runs,
                   contributed, insert_log, query>>
    /\ UNCHANGED <<rng, commands, has_moved, first_run>>

\* water tile spawned, tile_map.insert((x, y), Unpassable)  (lines 216-236),
\* then the next iteration of the inner or the outer loop.
GenWater ==
    /\ pc = "gen_water"
    /\ IF IsWater(noise_val)
          THEN /\ commands' = Append(commands,
                      TileSpawn(<<gx, gy>>, "Unpassable", "water_matl", 1))
               /\ tiles' = insert(tiles, <<gx, gy>>, "Unpassable")
          ELSE UNCHANGED <<commands, tiles>>
    /\ IF gy + 1 < LoopEnd
          THEN gx' = gx /\ gy' = gy + 1 /\ pc' = "gen_sample1"
          ELSE IF gx + 1 < LoopEnd
                  THEN gx' = gx + 1 /\ gy' = 0 /\ pc' = "gen_sample1"
                  ELSE gx' = gx /\ gy' = gy /\ pc' = "gen_done"
    /\ UNCHANGED <<noise_val, perlin, players, kb, outcome, gen_runs,
                   contributed, insert_log, query>>
    /\ UNCHANGED <<rng, has_moved, first_run>>

\* generate_world returns: its locals rng, perlin, x, y and noise_val are gone.
GenReturn ==
    /\ pc = "gen_done"
    /\ perlin' = EmptyMap
    /\ noise_val' = 0
    /\ gx' = 0
    /\ gy' = 0
    /\ pc' = "setup_spawn"
    /\ rng' = NoRng
    /\ UNCHANGED <<tiles, players, kb, outcome, gen_runs,
                   contributed, insert_log, query>>
    /\ UNCHANGED <<commands, has_moved, first_run>>

\* ------------------------------------------------------------------ setup
\* (GRID_SIZE as i32 / 2, GRID_SIZE as i32 / 2)
player_grid_pos == <<GRID_SIZE \div 2, GRID_SIZE \div 2>>

\* Vec3::new(pos.0 as f32 * TILE_SIZE, pos.1 as f32 * TILE_SIZE, z)
Translation(pos, z) == <<pos[1] * TILE_SIZE, pos[2] * TILE_SIZE, z>>

\* setup registered in Update as well: Startup is entered again every frame.
ScheduleAfter_rerun(s) ==
    CASE s = "Startup"   -> "PreUpdate"
      [] s = "PreUpdate" -> "Update"
      [] s = "Update"    -> "Startup"

\* The schedule entered when a schedule has run: Startup runs once, then
\* every frame runs the input update followed by Update.
ScheduleAfter(s) ==
    CASE s = "Startup"   -> "PreUpdate"
      [] s = "PreUpdate" -> "Update"
      [] s = "Update"    -> "PreUpdate"

\* Rest of setup: the player is spawned at the centre of the grid; the
\* queued commands are applied when the Startup schedule ends, which puts
\* the player in reach of player_query and empties the queue.
SetupSpawnPlayer ==
    /\ pc = "setup_spawn"
    /\ players' = players \cup
          {[pos |-> player_grid_pos,
            translation |-> Translation(player_grid_pos, PLAYER_Z)]}
    /\ pc' = ScheduleAfter("Startup")
    /\ commands' = <<>>
    /\ UNCHANGED <<gx, gy, noise_val, perlin, tiles, kb, outcome, gen_runs,
                   contributed, insert_log, query>>
    /\ UNCHANGED <<rng, has_moved, first_run>>

\* ------------------------------------------------------------ input update
\* The engine's input update at the start of a frame: just_pressed is
\* cleared, then the key events of the frame are applied, a press marking
\* the key just pressed. E is the set of keys with an event in this frame
\* (at most one per key): an up key of E goes down, a down key of E goes up.
InputUpdate(E) ==
    /\ pc = "PreUpdate"
    /\ kb' = [pressed      |-> (kb.pressed \ E) \cup (E \ kb.pressed),
              just_pressed |-> E \ kb.pressed]
    /\ contributed' = [k \in Keys |-> IF k \in E THEN 0 ELSE contributed[k]]
    /\ pc' = ScheduleAfter("PreUpdate")
    /\ UNCHANGED <<gx, gy, noise_val, perlin, tiles, players, outcome,
                   gen_runs, insert_log, query>>
    /\ UNCHANGED <<rng, commands, has_moved, first_run>>

\* ------------------------------------------------------------ move_player
\* kb_input.pressed(key) used in place of just_pressed.
just_pressed_level(input, key) == key \in input.pressed

\* kb_input.just_pressed(key)
just_pressed(input, key) == key \in input.just_pressed

\* The S and D tests written as else-branches of the W and A tests.
Direction_elseif(input) ==
    LET dy == IF input.just_pressed \cap {"KeyW"} # {} THEN 1
              ELSE IF input.just_pressed \cap {"KeyS"} # {} THEN -1 ELSE 0
        dx == IF input.just_pressed \cap {"KeyA"} # {} THEN -1
              ELSE IF input.just_pressed \cap {"KeyD"} # {} THEN 1 ELSE 0
    IN  <<dx, dy>>

\* let mut direction = (0, 0); then the four ifs, in source order.
Direction(input) ==
    LET d0 == <<0, 0>>
        d1 == IF just_pressed(input, "KeyW") THEN <<d0[1], d0[2] + 1>> ELSE d0
        d2 == IF just_pressed(input, "KeyS") THEN <<d1[1], d1[2] - 1>> ELSE d1
        d3 == IF just_pressed(input, "KeyA") THEN <<d2[1] - 1, d2[2]>> ELSE d2
        d4 == IF just_pressed(input, "KeyD") THEN <<d3[1] + 1, d3[2]>> ELSE d3
    IN  d4

\* (player.pos.0 + direction.0, player.pos.1 + direction.1)
NewPos(pos, direction) == <<pos[1] + direction[1], pos[2] + direction[2]>>

\* Which branch of lines 136-148 is taken.
MoveOutcome(p, t, direction) ==
    IF direction # <<0, 0>>
       THEN IF is_passable(t, NewPos(p.pos, direction)) THEN "commit"
                                                        ELSE "reject"
       ELSE "noop"

\* The move committed without asking the TileMap.
Move_unchecked(p, t, direction) ==
    IF direction # <<0, 0>>
       THEN LET new_pos == <<p.pos[1] + direction[1], p.pos[2] + direction[2]>>
            IN  [pos |-> new_pos,
                 translation |-> <<new_pos[1] * TILE_SIZE, new_pos[2] * TILE_SIZE,
                                   p.translation[3]>>]
       ELSE p

\* A diagonal move also asks for one of the two orthogonal neighbours.
Move_corner(p, t, direction) ==
    IF direction # <<0, 0>>
       THEN LET new_pos == <<p.pos[1] + direction[1], p.pos[2] + direction[2]>>
                side_x == <<p.pos[1] + direction[1], p.pos[2]>>
                side_y == <<p.pos[1], p.pos[2] + direction[2]>>
                open == /\ new_pos \in DOMAIN t /\ t[new_pos] = "Passable"
                        /\ \/ direction[1] = 0
                           \/ direction[2] = 0
                           \/ (side_x \in DOMAIN t /\ t[side_x] = "Passable")
                           \/ (side_y \in DOMAIN t /\ t[side_y] = "Passable")
            IN  IF open
                   THEN [pos |-> new_pos,
                         translation |-> <<new_pos[1] * TILE_SIZE,
                                           new_pos[2] * TILE_SIZE, p.translation[3]>>]
                   ELSE p
       ELSE p

\* A committed move that leaves transform.translation as it was.
Move_notransform(p, t, direction) ==
    IF direction # <<0, 0>>
       THEN LET new_pos == <<p.pos[1] + direction[1], p.pos[2] + direction[2]>>
            IN  IF new_pos \in DOMAIN t /\ t[new_pos] = "Passable"
                   THEN [pos |-> new_pos, translation |-> p.translation]
                   ELSE p
       ELSE p

\* The target tested against the grid range instead of the TileMap.
Move_inrange(p, t, direction) ==
    IF direction # <<0, 0>>
       THEN LET new_pos == <<p.pos[1] + direction[1], p.pos[2] + direction[2]>>
            IN  IF /\ new_pos[1] >= 0 /\ new_pos[1] < GRID_SIZE
                   /\ new_pos[2] >= 0 /\ new_pos[2] < GRID_SIZE
                   THEN [pos |-> new_pos,
                         translation |-> <<new_pos[1] * TILE_SIZE,
                                           new_pos[2] * TILE_SIZE, p.translation[3]>>]
                   ELSE p
       ELSE p

\* The (Player, Transform) pair after lines 136-148.
Move(p, t, direction) ==
    IF direction # <<0, 0>>
       THEN LET new_pos == NewPos(p.pos, direction)
            IN  IF is_passable(t, new_pos)
                   THEN [pos |-> new_pos,
                         translation |-> Translation(new_pos, p.translation[3])]
                   ELSE p
       ELSE p

\* One more evaluation a key fed a direction to: 0, 1, many.
Bump(n) == IF n < 2 THEN n + 1 ELSE 2

\* move_player taking the TileMap mutably and closing the cell it leaves.
MovePlayer_closes ==
    /\ pc = "Update"
    /\ IF Cardinality(players) # 1
          THEN /\ outcome' = "absent"
               /\ UNCHANGED <<players, contributed, tiles>>
          ELSE LET p == CHOOSE q \in players : TRUE
                   direction == Direction(kb)
               IN  /\ players' = {Move(p, tiles, direction)}
                   /\ outcome' = MoveOutcome(p, tiles, direction)
                   /\ tiles' = IF MoveOutcome(p, tiles, direction) = "commit"
                                  THEN insert(tiles, p.pos, "Unpassable")
                                  ELSE tiles
                   /\ contributed' =
                         [k \in Keys |-> IF just_pressed(kb, k)
                                            THEN Bump(contributed[k])
                                            ELSE contributed[k]]
    /\ pc' = ScheduleAfter("Update")
    /\ has_moved' = (has_moved \/ outcome' = "commit")
    /\ UNCHANGED <<gx, gy, noise_val, perlin, kb, gen_runs, insert_log, query>>
    /\ UNCHANGED <<rng, commands, first_run>>

\* move_player unwrapping player_query.single_mut(): a missing entity
\* panics and the schedule never gets to the next frame.
MovePlayer_unwrap ==
    /\ pc = "Update"
    /\ IF Cardinality(players) # 1
          THEN /\ outcome' = "panic"
               /\ pc' = "panicked"
               /\ UNCHANGED <<players, contributed>>
          ELSE LET p == CHOOSE q \in players : TRUE
                   direction == Direction(kb)
               IN  /\ players' = {Move(p, tiles, direction)}
                   /\ outcome' = MoveOutcome(p, tiles, direction)
                   /\ contributed' =
                         [k \in Keys |-> IF just_pressed(kb, k)
                                            THEN Bump(contributed[k])
                                            ELSE contributed[k]]
                   /\ pc' = ScheduleAfter("Update")
    /\ has_moved' = (has_moved \/ outcome' = "commit")
    /\ UNCHANGED <<gx, gy, noise_val, perlin, tiles, kb, gen_runs,
                   insert_log, query>>
    /\ UNCHANGED <<rng, commands, first_run>>

\* One run of the Update system move_player.
MovePlayer ==
    /\ pc = "Update"
    /\ IF Cardinality(players) # 1
          THEN \* player_query.single_mut() is not Ok: return
               /\ outcome' = "absent"
               /\ UNCHANGED <<players, contributed>>
          ELSE LET p == CHOOSE q \in players : TRUE
                   direction == Direction(kb)
               IN  /\ players' = {Move(p, tiles, direction)}
                   /\ outcome' = MoveOutcome(p, tiles, direction)
                   /\ contributed' =
                         [k \in Keys |-> IF just_pressed(kb, k)
                                            THEN Bump(contributed[k])
                                            ELSE contributed[k]]
    /\ pc' = ScheduleAfter("Update")
    /\ has_moved' = (has_moved \/ outcome' = "commit")
    /\ UNCHANGED <<gx, gy, noise_val, perlin, tiles, kb, gen_runs,
                   insert_log, query>>
    /\ UNCHANGED <<rng, commands, first_run>>

\* ------------------------------------------------------ the whole program
Next ==
    \/ SetupCallGenerate
    \/ GenSample1
    \/ GenGround
    \/ GenRock
    \/ GenSample2
    \/ GenWater
    \/ GenReturn
    \/ SetupSpawnPlayer
    \/ \E E \in SUBSET Keys : InputUpdate(E)
    \/ MovePlayer

Spec == Init /\ [][Next]_vars

\* ------------------------------------------------- TileMap used on its own
\* A caller of the TileMap API: any sequence of at most MaxInserts inserts
\* at the keys of TMKeys, and is_passable queries at those keys and at two
\* coordinates that are never inserted.
TMKeys == {<<0, 0>>, <<0, 1>>, <<1, 0>>, <<1, 1>>}
TMQueries == TMKeys \cup {<<-1, 0>>, <<2, 2>>}

TMInsert(pos, ttype) ==
    /\ Len(insert_log) < MaxInserts
    /\ tiles' = insert(tiles, pos, ttype)
    /\ insert_log' = Append(insert_log, [pos |-> pos, ttype |-> ttype])
    /\ query' = NoQuery
    /\ UNCHANGED <<pc, gx, gy, noise_val, perlin, players, kb, outcome,
                   gen_runs, contributed>>
    /\ UNCHANGED <<rng, commands, has_moved, first_run>>

TMQuery(pos) ==
    /\ query' = [asked |-> TRUE, pos |-> pos, result |-> is_passable(tiles, pos)]
    /\ UNCHANGED <<pc, gx, gy, noise_val, perlin, tiles, players, kb, outcome,
                   gen_runs, contributed, insert_log>>
    /\ UNCHANGED <<rng, commands, has_moved, first_run>>

NextTileMap ==
    \/ \E pos \in TMKeys, ttype \in TileTypes : TMInsert(pos, ttype)
    \/ \E pos \in TMQueries : TMQuery(pos)

SpecTileMap == Init /\ [][NextTileMap]_vars

\* ------------------------------------------- generate_world called twice
\* A second call of generate_world on a fresh TileMap, made when a first call
\* has finished: the map and the generator state of the first call are kept
\* for comparison, the generator is taken anew, and Perlin::new(12) is the
\* same noise function as in the first call.
SecondRun ==
    /\ pc = "gen_done"
    /\ gen_runs = 1
    /\ first_run' = [done |-> TRUE, tiles |-> tiles, rng |-> rng]
    /\ tiles' = EmptyMap
    /\ commands' = <<>>
    /\ rng' \in RngStates
    /\ gen_runs' = gen_runs + 1
    /\ gx' = 0
    /\ gy' = 0
    /\ pc' = IF LoopEnd > 0 THEN "gen_sample1" ELSE "gen_done"
    /\ UNCHANGED <<noise_val, perlin, players, kb, outcome, contributed,
                   insert_log, query, has_moved>>

NextTwice ==
    \/ SetupCallGenerate
    \/ GenSample1
    \/ GenGround
    \/ GenRock
    \/ GenSample2
    \/ GenWater
    \/ SecondRun

SpecTwice == Init /\ [][NextTwice]_vars

\* ------------------------------------- the entity removed behind the program
\* Something outside the program despawns the (Player, Transform) entity
\* between two frames, or spawns it again as setup spawned it.
Despawn ==
    /\ pc = "PreUpdate"
    /\ players # {}
    /\ players' = {}
    /\ UNCHANGED <<pc, gx, gy, noise_val, perlin, tiles, kb, outcome, gen_runs,
                   contributed, insert_log, query, rng, commands, has_moved,
                   first_run>>

Respawn ==
    /\ pc = "PreUpdate"
    /\ players = {}
    /\ players' = {[pos |-> player_grid_pos,
                    translation |-> Translation(player_grid_pos, PLAYER_Z)]}
    /\ UNCHANGED <<pc, gx, gy, noise_val, perlin, tiles, kb, outcome, gen_runs,
                   contributed, insert_log, query, rng, commands, has_moved,
                   first_run>>

NextDespawn ==
    \/ Next
    \/ Despawn
    \/ Respawn

SpecDespawn == Init /\ [][NextDespawn]_vars

\* ===================================================== checked properties
\* The single (Player, Transform) entity, where there is exactly one.
ThePlayer == CHOOSE q \in players : TRUE
ThePlayerNext == CHOOSE q \in players' : TRUE
HasPlayer == Cardinality(players) = 1

\* Unit vector of a direction key, as stated in the description of movement.
UnitVec(k) ==
    CASE k = "KeyW" -> <<0, 1>>
      [] k = "KeyS" -> <<0, -1>>
      [] k = "KeyA" -> <<-1, 0>>
      [] k = "KeyD" -> <<1, 0>>

RECURSIVE SumVec(_)
SumVec(ks) ==
    IF ks = {} THEN <<0, 0>>
    ELSE LET k == CHOOSE e \in ks : TRUE
             r == SumVec(ks \ {k})
         IN  <<UnitVec(k)[1] + r[1], UnitVec(k)[2] + r[2]>>

Plus(c, d) == <<c[1] + d[1], c[2] + d[2]>>
Minus(c, d) == <<c[1] - d[1], c[2] - d[2]>>

\* C1: an evaluation of move_player with the entity at C and a summed
\* direction d other than zero leaves the entity at C + d if and only if
\* is_passable(C + d) holds at that evaluation, and at C otherwise.
C1_MoveIffPassable ==
    [][(pc = "Update" /\ HasPlayer /\ Direction(kb) # <<0, 0>>) =>
          LET C == ThePlayer.pos
              target == Plus(C, Direction(kb))
          IN  /\ Cardinality(players') = 1
              /\ (ThePlayerNext.pos = target) <=> is_passable(tiles, target)
              /\ ~is_passable(tiles, target) => ThePlayerNext.pos = C]_vars

\* C1 witness: an evaluation has just committed a move onto a passable cell
\* while another neighbour of the cell it left is not passable.
C1_Witness ==
    /\ pc = "PreUpdate"
    /\ outcome = "commit"
    /\ HasPlayer
    /\ is_passable(tiles, ThePlayer.pos)
    /\ \E c \in Grid : ~is_passable(tiles, c)

\* C2: is_passable(pos) is true exactly when an entry exists at pos and its
\* kind is Passable; it is false for a coordinate never inserted and for an
\* Unpassable entry alike. Stated of the last call made and of every
\* coordinate in the current map.
C2_IsPassableIffPassableEntry ==
    /\ query.asked =>
          (query.result <=>
              (query.pos \in DOMAIN tiles /\ tiles[query.pos] = "Passable"))
    /\ \A pos \in TMQueries :
          /\ pos \notin DOMAIN tiles => is_passable(tiles, pos) = FALSE
          /\ (pos \in DOMAIN tiles /\ tiles[pos] = "Unpassable")
                => is_passable(tiles, pos) = FALSE
          /\ (pos \in DOMAIN tiles /\ tiles[pos] = "Passable")
                => is_passable(tiles, pos) = TRUE

\* C2 witness: is_passable was called on a coordinate never inserted, in a
\* map that holds a Passable and an Unpassable entry.
C2_Witness ==
    /\ query.asked
    /\ query.pos \notin DOMAIN tiles
    /\ query.result = FALSE
    /\ \E a, b \in DOMAIN tiles : tiles[a] = "Passable" /\ tiles[b] = "Unpassable"

\* Index of the most recent insert at pos in the log, 0 if there is none.
LastInsertAt(pos) ==
    LET idx == {i \in 1..Len(insert_log) : insert_log[i].pos = pos}
    IN  IF idx = {} THEN 0 ELSE CHOOSE i \in idx : \A j \in idx : j <= i

\* C3: after any sequence of inserts, the kind stored at a coordinate that
\* was inserted at least once (and so is_passable there) is the kind of the
\* most recent insert at that coordinate, whatever was inserted there before
\* or elsewhere since; a coordinate never inserted has no entry.
C3_LastWriteWins ==
    \A pos \in TMQueries :
        LET i == LastInsertAt(pos)
        IN  IF i = 0
               THEN pos \notin DOMAIN tiles
               ELSE /\ pos \in DOMAIN tiles
                    /\ tiles[pos] = insert_log[i].ttype
                    /\ is_passable(tiles, pos) = (insert_log[i].ttype = "Passable")

\* C3 witness: a coordinate was inserted twice with different kinds and then
\* another coordinate was inserted.
C3_Witness ==
    /\ Len(insert_log) = 3
    /\ insert_log[1].pos = insert_log[2].pos
    /\ insert_log[1].ttype # insert_log[2].ttype
    /\ insert_log[3].pos # insert_log[1].pos

\* C4: when generate_world has finished, every cell whose sample is above
\* 0.3 is Unpassable in the map; in particular every cell whose sample is
\* above 0.8 is Unpassable and none of them is Passable.
C4_AboveRockThresholdUnpassable ==
    pc = "gen_done" =>
        \A c \in Grid :
            /\ c \in DOMAIN perlin
            /\ perlin[c] > 3 => (c \in DOMAIN tiles /\ tiles[c] = "Unpassable")
            /\ perlin[c] > 8 => (c \in DOMAIN tiles /\ tiles[c] = "Unpassable"
                                 /\ ~is_passable(tiles, c))

\* C4 witness: generation has finished with a cell sampled in (0.3, 0.8]
\* and a cell sampled above 0.8.
C4_Witness ==
    /\ pc = "gen_done"
    /\ \E a, b \in Grid : /\ a \in DOMAIN perlin /\ b \in DOMAIN perlin
                          /\ perlin[a] > 3 /\ perlin[a] <= 8 /\ perlin[b] > 8

\* C5: when generate_world has finished, every cell whose sample is at most
\* 0.3 is Passable in the map.
C5_AtMostRockThresholdPassable ==
    pc = "gen_done" =>
        \A c \in Grid :
            (c \in DOMAIN perlin /\ perlin[c] <= 3) =>
                (c \in DOMAIN tiles /\ tiles[c] = "Passable")

\* C5 witness: generation has finished with a cell sampled at most 0.3 next
\* to cells sampled above it.
C5_Witness ==
    /\ pc = "gen_done"
    /\ DOMAIN perlin = Grid
    /\ \E a, b \in Grid : perlin[a] <= 3 /\ perlin[b] > 3

\* C6: a key pressed once and held feeds a direction to exactly one
\* evaluation: none before the evaluation of the step of its press edge, one
\* from then on for as long as it stays down without a new press edge; and
\* an evaluation in which no key has a press edge moves nothing, whatever is
\* held.
C6_HeldKeyCountsOnce ==
    /\ [](\A k \in Keys :
            /\ contributed[k] <= 1
            /\ (pc = "Update" /\ k \in kb.just_pressed) => contributed[k] = 0
            /\ (k \in kb.pressed /\ HasPlayer
                  /\ (pc = "PreUpdate" \/ k \notin kb.just_pressed))
                  => contributed[k] = 1)
    /\ [][(pc = "Update" /\ kb.just_pressed = {}) => players' = players]_vars

\* C6 witness: S was pressed, moved the entity one cell down, and has been
\* held through a later evaluation that moved nothing.
C6_Witness ==
    /\ pc = "PreUpdate"
    /\ kb.pressed = {"KeyS"}
    /\ kb.just_pressed = {}
    /\ outcome = "noop"
    /\ contributed["KeyS"] = 1
    /\ HasPlayer
    /\ ThePlayer.pos = Plus(player_grid_pos, <<0, -1>>)
    /\ is_passable(tiles, Plus(ThePlayer.pos, <<0, -1>>)) = FALSE
    /\ is_passable(tiles, ThePlayer.pos)

\* C7: a diagonal move is committed whenever the diagonal target cell is
\* passable, whatever the two orthogonally adjacent cells are.
C7_DiagonalIgnoresNeighbours ==
    [][(pc = "Update" /\ HasPlayer) =>
          LET d == SumVec(kb.just_pressed)
              target == Plus(ThePlayer.pos, d)
          IN  (d[1] # 0 /\ d[2] # 0 /\ is_passable(tiles, target))
                 => (Cardinality(players') = 1 /\ ThePlayerNext.pos = target)]_vars

\* C7 witness: the entity has just moved up+right onto its cell while both
\* cells orthogonally between the cell it left and this one are not passable
\* (with a 2 by 2 grid: only (0,0) and (1,1) Passable, from (0,0) to (1,1)).
C7_Witness ==
    /\ pc = "PreUpdate"
    /\ outcome = "commit"
    /\ kb.just_pressed = {"KeyW", "KeyD"}
    /\ HasPlayer
    /\ LET from == Minus(ThePlayer.pos, <<1, 1>>)
       IN  /\ is_passable(tiles, from)
           /\ ~is_passable(tiles, Plus(from, <<1, 0>>))
           /\ ~is_passable(tiles, Plus(from, <<0, 1>>))

\* C8: the direction of an evaluation is the component-wise sum of the unit
\* vectors of the keys with a press edge in it; when the sum is zero (no
\* key, or opposing keys together) the entity stays where it is, and
\* otherwise the candidate asked of the TileMap is coordinate + sum.
C8_DirectionIsSumZeroIsNoop ==
    [][(pc = "Update" /\ HasPlayer) =>
          LET d == SumVec(kb.just_pressed)
              target == Plus(ThePlayer.pos, d)
          IN  /\ d = <<0, 0>> => (players' = players /\ outcome' = "noop")
              /\ (d # <<0, 0>> /\ is_passable(tiles, target))
                    => (outcome' = "commit" /\ ThePlayerNext.pos = target)
              /\ (d # <<0, 0>> /\ ~is_passable(tiles, target))
                    => (outcome' = "reject" /\ players' = players)]_vars

\* C8 witness: left and right had a press edge in the same evaluation, which
\* moved nothing although the cell to the left is passable.
C8_Witness ==
    /\ pc = "PreUpdate"
    /\ kb.just_pressed = {"KeyA", "KeyD"}
    /\ outcome = "noop"
    /\ HasPlayer
    /\ is_passable(tiles, Plus(ThePlayer.pos, <<-1, 0>>))

\* C9: generate_world runs exactly once and has filled the whole grid before
\* the first evaluation of move_player; once an evaluation has happened the
\* program is never inside setup or generate_world again.
C9_GenerationOnceBeforeMovement ==
    /\ gen_runs <= 1
    /\ (pc = "Update" \/ outcome # "none") =>
          /\ gen_runs = 1
          /\ DOMAIN tiles = Grid
          /\ pc \in {"PreUpdate", "Update"}

\* C9 witness: a second evaluation is about to run on the full grid.
C9_Witness ==
    /\ pc = "Update"
    /\ outcome # "none"
    /\ gen_runs = 1
    /\ DOMAIN tiles = Grid

\* C10: once generate_world has finished no step changes the TileMap, in
\* particular no evaluation of move_player, whether it commits, rejects or
\* is a no-op.
C10_TileMapFrozenAfterGeneration ==
    [][(pc \in {"gen_done", "setup_spawn", "PreUpdate", "Update"})
          => (tiles' = tiles)]_vars

\* C10 witness: an evaluation has just rejected a move and an earlier one
\* had moved the entity off its starting cell.
C10_Witness ==
    /\ pc = "PreUpdate"
    /\ outcome = "reject"
    /\ HasPlayer
    /\ ThePlayer.pos # player_grid_pos
    /\ DOMAIN tiles = Grid

\* C11: generation is deterministic: a second run of generate_world with the
\* same seed, scale and grid size, started on an empty TileMap, ends with the
\* same kind at every coordinate as the first run, whatever state the random
\* generator created inside generate_world is in.
C11_GenerationDeterministic ==
    (pc = "gen_done" /\ first_run.done) =>
        /\ DOMAIN tiles = DOMAIN first_run.tiles
        /\ \A c \in DOMAIN tiles : tiles[c] = first_run.tiles[c]

\* C11 witness: a second run has finished with another generator state than
\* the first, on a map with both kinds.
C11_Witness ==
    /\ pc = "gen_done"
    /\ first_run.done
    /\ gen_runs = 2
    /\ rng # first_run.rng
    /\ \E a, b \in DOMAIN tiles : tiles[a] = "Passable" /\ tiles[b] = "Unpassable"

\* C12: the translation of the entity is set to (x * TILE_SIZE, y * TILE_SIZE)
\* of the candidate, with z unchanged, if and only if the evaluation commits;
\* a rejected move changes neither coordinate nor translation and the
\* schedule goes on; so the translation is always the coordinate times
\* TILE_SIZE at the z the entity was spawned with.
C12_TranslationFollowsCommit ==
    /\ [](\A p \in players :
            p.translation = <<p.pos[1] * TILE_SIZE, p.pos[2] * TILE_SIZE, PLAYER_Z>>)
    /\ [][(pc = "Update" /\ HasPlayer) =>
            LET target == Plus(ThePlayer.pos, SumVec(kb.just_pressed))
            IN  /\ Cardinality(players') = 1
                /\ (ThePlayerNext.translation # ThePlayer.translation)
                      <=> (outcome' = "commit")
                /\ outcome' = "commit" =>
                      ThePlayerNext.translation =
                          <<target[1] * TILE_SIZE, target[2] * TILE_SIZE,
                            ThePlayer.translation[3]>>
                /\ outcome' = "reject" =>
                      (players' = players /\ pc' = "PreUpdate")]_vars

\* C12 witness: a committed move has put the entity off its starting cell and
\* its translation is that of the new cell.
C12_Witness ==
    /\ pc = "PreUpdate"
    /\ outcome = "commit"
    /\ HasPlayer
    /\ ThePlayer.pos # player_grid_pos
    /\ ThePlayer.translation # Translation(player_grid_pos, PLAYER_Z)
    /\ ThePlayer.translation = Translation(ThePlayer.pos, PLAYER_Z)

\* C13: an evaluation that finds no controlled entity changes nothing,
\* whatever keys have a press edge, raises nothing, and the next frame
\* follows; evaluations that find the entity end in one of the three normal
\* ways.
C13_AbsentEntityIsNoop ==
    [][pc = "Update" =>
          IF players = {}
             THEN /\ outcome' = "absent"
                  /\ pc' = "PreUpdate"
                  /\ UNCHANGED <<players, tiles, kb, contributed, has_moved,
                                 gen_runs, commands>>
             ELSE /\ outcome' \in {"noop", "commit", "reject"}
                  /\ pc' = "PreUpdate"]_vars

\* C13 witness: after an earlier committed move, an evaluation with press
\* edges has just found no entity.
C13_Witness ==
    /\ pc = "PreUpdate"
    /\ outcome = "absent"
    /\ players = {}
    /\ kb.just_pressed # {}
    /\ has_moved

\* Positions in the queue of the spawns of one material at one cell.
SpawnsAt(c, material) ==
    {i \in 1..Len(commands) : commands[i].pos = c /\ commands[i].material = material}

\* C14: during generation every cell gets exactly one ground record, at
\* depth 0; rock and water records are at depth 1; and a water record for a
\* cell comes only after a rock record for the same cell.
C14_VisualRecordsLayered ==
    /\ \A i \in 1..Len(commands) :
          /\ commands[i].material = "ground_matl" => commands[i].translation[3] = 0
          /\ commands[i].material \in {"rock_matl", "water_matl"}
                => commands[i].translation[3] = 1
          /\ commands[i].material = "water_matl" =>
                \E j \in 1..(i - 1) : /\ commands[j].pos = commands[i].pos
                                      /\ commands[j].material = "rock_matl"
    /\ pc \notin {"PreUpdate", "Update"} =>
          \A c \in Grid :
              /\ Cardinality(SpawnsAt(c, "ground_matl")) =
                    (IF c \in DOMAIN tiles THEN 1 ELSE 0)
              /\ Cardinality(SpawnsAt(c, "rock_matl")) <= 1
              /\ Cardinality(SpawnsAt(c, "water_matl")) <= 1

\* C14 witness: generation has finished with a cell that is ground only, a
\* cell with rock and no water, and a cell with rock and water.
C14_Witness ==
    /\ pc = "gen_done"
    /\ \E a, b, c \in Grid :
          /\ SpawnsAt(a, "rock_matl") = {}
          /\ SpawnsAt(b, "rock_matl") # {} /\ SpawnsAt(b, "water_matl") = {}
          /\ SpawnsAt(c, "rock_matl") # {} /\ SpawnsAt(c, "water_matl") # {}

\* C15: for a cell whose sample is above 0.8 the insert of the water step
\* changes nothing in the TileMap: the entry of the cell is Unpassable just
\* before it, set by the rock step, and the whole map is the same after it.
C15_WaterInsertIsNoop ==
    [][(pc = "gen_water" /\ <<gx, gy>> \in DOMAIN perlin
          /\ perlin[<<gx, gy>>] > 8) =>
          /\ <<gx, gy>> \in DOMAIN tiles
          /\ tiles[<<gx, gy>>] = "Unpassable"
          /\ tiles' = tiles]_vars

\* C15 witness: the water step has just run for a cell sampled above 0.8.
C15_Witness ==
    /\ pc \in {"gen_sample1", "gen_done"}
    /\ noise_val > 8
    /\ Len(commands) > 0
    /\ commands[Len(commands)].material = "water_matl"
    /\ tiles[commands[Len(commands)].pos] = "Unpassable"

\* C16: when generation has finished the TileMap has an entry for exactly
\* the coordinates (x, y) with 0 <= x, y < GRID_SIZE, GRID_SIZE * GRID_SIZE of
\* them; and no step ever removes a coordinate from the map.
C16_EntriesAreExactlyTheGrid ==
    /\ [](pc \in {"gen_done", "setup_spawn", "PreUpdate", "Update"} =>
            /\ \A c \in DOMAIN tiles : /\ 0 <= c[1] /\ c[1] < GRID_SIZE
                                       /\ 0 <= c[2] /\ c[2] < GRID_SIZE
            /\ \A x \in 0..(GRID_SIZE - 1), y \in 0..(GRID_SIZE - 1) :
                  <<x, y>> \in DOMAIN tiles
            /\ Cardinality(DOMAIN tiles) = GRID_SIZE * GRID_SIZE)
    /\ [][(DOMAIN tiles) \subseteq (DOMAIN tiles')]_vars

\* C16 witness: the loops have ended and the map holds the last cell they
\* visit.
C16_Witness ==
    /\ pc = "gen_done"
    /\ gx = GRID_SIZE - 1
    /\ gy = GRID_SIZE - 1
    /\ <<GRID_SIZE - 1, GRID_SIZE - 1>> \in DOMAIN tiles
    /\ Cardinality(DOMAIN tiles) = GRID_SIZE * GRID_SIZE

\* C17: the coordinate of the entity is always inside the generated grid.
C17_EntityStaysInGrid ==
    \A p \in players :
        /\ 0 <= p.pos[1] /\ p.pos[1] < GRID_SIZE
        /\ 0 <= p.pos[2] /\ p.pos[2] < GRID_SIZE

\* C17 witness: an evaluation has just rejected a move whose target lies
\* outside the grid.
C17_Witness ==
    /\ pc = "PreUpdate"
    /\ outcome = "reject"
    /\ HasPlayer
    /\ LET target == Plus(ThePlayer.pos, SumVec(kb.just_pressed))
       IN  \/ target[1] < 0 \/ target[1] >= GRID_SIZE
           \/ target[2] < 0 \/ target[2] >= GRID_SIZE

\* C18: after generation the entity either has never committed a move and is
\* at its starting coordinate, or is on a cell for which is_passable holds;
\* and its coordinate changes only in an evaluation that commits a move.
C18_OnStartOrPassable ==
    /\ [](\A p \in players :
            \/ (~has_moved /\ p.pos = <<GRID_SIZE \div 2, GRID_SIZE \div 2>>)
            \/ (has_moved /\ is_passable(tiles, p.pos)))
    /\ [][(players # {} /\ players' # players) =>
            (pc = "Update" /\ outcome' = "commit" /\ has_moved')]_vars

\* C18 witness: the entity was created on a cell that is not passable and an
\* evaluation has rejected its move, so it is still there.
C18_Witness ==
    /\ pc = "PreUpdate"
    /\ HasPlayer
    /\ ~has_moved
    /\ outcome = "reject"
    /\ ThePlayer.pos = player_grid_pos
    /\ ~is_passable(tiles, player_grid_pos)

====
